---- MODULE Spec2Model ----
(***************************************************************************)
(* DeeMenu (src/src/main.rs): an application launcher.  The model covers   *)
(* the executable index (scan_path), the candidate filter (update_filter), *)
(* the launch state machine (attempt_run and the per-frame update          *)
(* handler) and the detached launch threads (spawn_process).               *)
(*                                                                         *)
(* Strings are sequences of code points (32 = space, 9 = tab, 65..90 =     *)
(* 'A'..'Z', 97..122 = 'a'..'z'), so that trim, to_lowercase, starts_with, *)
(* strip_prefix, contains and split_whitespace are computed as Rust        *)
(* computes them and String ordering is code-point (byte) order.           *)
(***************************************************************************)
EXTENDS Integers, Sequences, FiniteSets, TLC

\* ------------------------------------------------------------------------
\* String primitives (Rust str methods)
\* ------------------------------------------------------------------------

\* char::is_whitespace, restricted to the code points of the model's alphabet
\* (tab, LF, VT, FF, CR, space).
IsWhitespace(c) == c \in {9, 10, 11, 12, 13, 32}

\* char::to_lowercase on the ASCII range.
LowerChar(c) == IF c >= 65 /\ c <= 90 THEN c + 32 ELSE c

\* str::to_lowercase
ToLowercase(s) == [i \in 1..Len(s) |-> LowerChar(s[i])]

\* str::trim: drop leading and trailing whitespace.
Trim(s) ==
  LET nonWs == {i \in 1..Len(s) : ~IsWhitespace(s[i])}
  IN  IF nonWs = {} THEN <<>>
      ELSE LET lo == CHOOSE i \in nonWs : \A j \in nonWs : i <= j
               hi == CHOOSE i \in nonWs : \A j \in nonWs : i >= j
           IN  SubSeq(s, lo, hi)

\* str::starts_with(&str)
StartsWith(s, p) == Len(s) >= Len(p) /\ SubSeq(s, 1, Len(p)) = p

\* str::strip_prefix(p) on a string known to start with p.
StripPrefix(s, p) == SubSeq(s, Len(p) + 1, Len(s))

\* str::contains(&str): p occurs in s as a contiguous substring.
Contains(s, p) ==
  \E i \in 1..(Len(s) - Len(p) + 1) : SubSeq(s, i, i + Len(p) - 1) = p

\* str::contains(char)
ContainsChar(s, c) == \E i \in 1..Len(s) : s[i] = c

\* str::split_whitespace: the maximal runs of non-whitespace, in order.
RECURSIVE SplitWhitespace(_)
SplitWhitespace(s) ==
  IF s = <<>> THEN <<>>
  ELSE IF IsWhitespace(s[1]) THEN SplitWhitespace(Tail(s))
  ELSE LET ws  == {i \in 1..Len(s) : IsWhitespace(s[i])}
           end == IF ws = {} THEN Len(s) + 1
                  ELSE CHOOSE i \in ws : \A j \in ws : i <= j
       IN  <<SubSeq(s, 1, end - 1)>> \o SplitWhitespace(SubSeq(s, end, Len(s)))

\* Ord for String: lexicographic by code point; a proper prefix sorts first.
StrLess(a, b) ==
  \E k \in 1..(Len(b)) :
     /\ k <= Len(a) + 1
     /\ SubSeq(a, 1, k - 1) = SubSeq(b, 1, k - 1)
     /\ (k = Len(a) + 1 \/ a[k] < b[k])

\* The sort with the comparison reversed: descending.
RECURSIVE SortedVec_Descending(_)
SortedVec_Descending(S) ==
  IF S = {} THEN <<>>
  ELSE LET m == CHOOSE x \in S : \A y \in S \ {x} : StrLess(y, x)
       IN  <<m>> \o SortedVec_Descending(S \ {m})

\* Vec::sort of the names collected from a HashSet: the ascending sequence of
\* the set's elements (the set's iteration order is immaterial after the sort).
RECURSIVE SortedVec(_)
SortedVec(S) ==
  IF S = {} THEN <<>>
  ELSE LET m == CHOOSE x \in S : \A y \in S \ {x} : StrLess(x, y)
       IN  <<m>> \o SortedVec(S \ {m})

\* The elements of a sequence.
Range(f) == {f[i] : i \in DOMAIN f}

\* Iterator::take(n) then collect
Take(s, n) == SubSeq(s, 1, IF Len(s) < n THEN Len(s) ELSE n)

\* The literal "sudo " (line 140, 171).
SudoPrefix == <<115, 117, 100, 111, 32>>

\* ------------------------------------------------------------------------
\* The environment: PATH and the filesystem
\* ------------------------------------------------------------------------

\* A PATH value is a sequence of tokens: directory names and the separator
\* ":".  A layout maps each existing directory to whether read_dir succeeds
\* and to its direct children; a child has a name, a kind, whether its
\* DirEntry and its file_type() can be read, and its executable bit.

\* The number of files in the large layout's /usr/bin.
NumBigNames == 51

File(n) == [name |-> n, kind |-> "file", entry_ok |-> TRUE, type_ok |-> TRUE, exec |-> TRUE]

SmallLayout ==
  [d \in {"/usr/bin", "/home/u/bin", "/sbin"} |->
     CASE d = "/usr/bin" ->
            [readable |-> TRUE,
             entries  |->
               { File(<<108, 115>>),                          \* ls
                 File(<<115, 117, 100, 111>>),                \* sudo
                 File(<<118, 105, 109>>),                     \* vim
                 File(<<65, 9, 98>>),                         \* A<TAB>b
                 File(<<46, 108, 115>>),                      \* .ls (hidden)
                 [File(<<108, 115, 100>>) EXCEPT !.kind = "dir"],        \* lsd/
                 [File(<<108, 115, 111>>) EXCEPT !.exec = FALSE],        \* lso, mode 0644
                 [File(<<108, 115, 108>>) EXCEPT !.kind = "symlink"],    \* lsl -> ...
                 [File(<<108, 115, 116>>) EXCEPT !.type_ok = FALSE],     \* lst, file_type() fails
                 [File(<<108, 115, 101>>) EXCEPT !.entry_ok = FALSE] } ] \* lse, entry unreadable
       [] d = "/home/u/bin" ->
            [readable |-> TRUE,
             entries  |-> { File(<<108, 115>>),               \* ls (again)
                            File(<<102, 100>>),               \* fd
                            File(<<115, 117, 100, 111, 32, 118, 105, 109>>) } ] \* "sudo vim"
       [] d = "/sbin" ->
            [readable |-> FALSE,
             entries  |-> { File(<<102, 115, 99, 107>>) } ] ] \* fsck, never listed

BigLayout ==
  [d \in {"/usr/bin"} |->
     [readable |-> TRUE,
      entries  |-> { File(<<122, 97 + (i \div 10), 97 + (i % 10)>>) : i \in 1..NumBigNames }]]

EmptyLayout == [d \in {} |-> [readable |-> FALSE, entries |-> {}]]

Layouts == {SmallLayout, BigLayout, EmptyLayout}

PathValues ==
  { [set |-> FALSE, val |-> <<>>],
    [set |-> TRUE,  val |-> <<>>],
    [set |-> TRUE,  val |-> <<"/home/u/bin", ":", ":", "/usr/bin">>] }

\* env::var("PATH").unwrap_or_default()
PathVar(env) == IF env.set THEN env.val ELSE <<>>

\* env::split_paths: the segments between separators, an empty segment being
\* the empty path.
RECURSIVE SplitPaths(_)
SplitPaths(toks) ==
  LET seps == {i \in 1..Len(toks) : toks[i] = ":"}
      Seg(t) == IF t = <<>> THEN "" ELSE t[1]
  IN  IF seps = {} THEN <<Seg(toks)>>
      ELSE LET k == CHOOSE i \in seps : \A j \in seps : i <= j
           IN  <<Seg(SubSeq(toks, 1, k - 1))>> \o SplitPaths(SubSeq(toks, k + 1, Len(toks)))

fallback_paths ==
  <<"/usr/bin", "/usr/local/bin", "/bin", "/snap/bin",
    "/var/lib/flatpak/exports/bin", "/sbin", "/usr/sbin">>

\* The fallbacks not already in the list are pushed, in order (lines 99-104):
\* PushFirst is the list after the first n iterations of the loop, each
\* iteration reading the list the previous one left.
RECURSIVE PushFirst(_, _, _)
PushFirst(paths, fb, n) ==
  IF n = 0 THEN paths
  ELSE CHOOSE next \in { pushed \o (IF fb[n] \in Range(pushed) THEN <<>> ELSE <<fb[n]>>) :
                          pushed \in {PushFirst(paths, fb, n - 1)} } : TRUE

PushFallbacks(paths, fb) == PushFirst(paths, fb, Len(fb))

paths_to_scan(env) == PushFallbacks(SplitPaths(PathVar(env)), fallback_paths)

\* name.starts_with('.')
IsHidden(name) == Len(name) >= 1 /\ name[1] = 46

\* The strict variant: only entries with the executable bit are taken.
DirBinaries_ExecOnly(fs, p) ==
  IF p \notin DOMAIN fs THEN {}
  ELSE IF ~fs[p].readable THEN {}
  ELSE { e.name : e \in { x \in fs[p].entries :
                            /\ x.entry_ok
                            /\ ~IsHidden(x.name)
                            /\ x.type_ok
                            /\ x.kind # "dir"
                            /\ x.exec } }

\* What one directory contributes to the HashSet (lines 106-128).
DirBinaries(fs, p) ==
  IF p \notin DOMAIN fs THEN {}                    \* !path.exists()
  ELSE IF ~fs[p].readable THEN {}                  \* read_dir is Err
  ELSE { e.name : e \in { x \in fs[p].entries :
                            /\ x.entry_ok          \* entries.flatten()
                            /\ ~IsHidden(x.name)
                            /\ x.type_ok           \* entry.file_type() is Ok
                            /\ x.kind # "dir" } }  \* !file_type.is_dir()

\* The sorted index scan_path stores in all_executables.
ScanPath(env, fs) ==
  LET paths == paths_to_scan(env)
  IN  SortedVec(UNION { DirBinaries(fs, paths[i]) : i \in 1..Len(paths) })

\* ------------------------------------------------------------------------
\* update_filter
\* ------------------------------------------------------------------------

\* The cap on the candidate list: take(50).
MaxCandidates == 50

\* clean_query (lines 137-144).
CleanQuery(search_query) ==
  LET query == ToLowercase(Trim(search_query))
  IN  IF StartsWith(query, SudoPrefix) THEN StripPrefix(query, SudoPrefix) ELSE query

\* The filter matching names as found, without lowercasing them.
FilterList_CaseSensitive(all, clean_query) ==
  IF clean_query = <<>> THEN Take(all, MaxCandidates)
  ELSE Take(SelectSeq(all, LAMBDA name : Contains(name, clean_query)), MaxCandidates)

\* filtered_executables (lines 146-155).
FilterList(all, clean_query) ==
  IF clean_query = <<>> THEN Take(all, MaxCandidates)
  ELSE Take(SelectSeq(all, LAMBDA name : Contains(ToLowercase(name), clean_query)),
            MaxCandidates)

\* The "safety bounds" on selected_index (lines 157-162).
ClampIndex(filtered, sel) ==
  IF filtered = <<>> THEN 0
  ELSE IF sel >= Len(filtered) THEN Len(filtered) - 1
  ELSE sel

\* update_filter: the new candidate list and cursor.
UpdateFilter(all, search_query, sel) ==
  LET f == FilterList(all, CleanQuery(search_query))
  IN  [filtered_executables |-> f, selected_index |-> ClampIndex(f, sel)]

\* ------------------------------------------------------------------------
\* attempt_run
\* ------------------------------------------------------------------------

\* raw_cmd (line 168).
RawCmd(search_query) == Trim(search_query)

\* The sudo request test (line 171).
IsSudoRequest(raw_cmd) == StartsWith(raw_cmd, SudoPrefix)

\* actual_cmd without the trim of the remainder.
ActualCmd_NoTrim(raw_cmd) == StripPrefix(raw_cmd, SudoPrefix)

\* actual_cmd (line 172).
ActualCmd(raw_cmd) == Trim(StripPrefix(raw_cmd, SudoPrefix))

\* The same with any whitespace, not only a space, counting as arguments.
UsesRawInput_AnyWhitespace(filtered, raw_cmd) ==
  filtered = <<>> \/ \E i \in 1..Len(raw_cmd) : IsWhitespace(raw_cmd[i])

\* Whether the raw input, not the suggestion, is what runs (lines 185-193):
\* no candidates, or a space in the raw input.
UsesRawInput(filtered, raw_cmd) == filtered = <<>> \/ ContainsChar(raw_cmd, 32)

\* The password test left out: an empty password is accepted.
PasswordGiven_Always(password_query) == TRUE

\* The password test of the SudoPassword arm (line 201).
PasswordGiven(password_query) == password_query # <<>>

\* The closure spawn_process hands to thread::spawn, not yet run.
Task(cmd_str, is_sudo, password) ==
  [cmd_str |-> cmd_str, is_sudo |-> is_sudo, password |-> password, st |-> "start"]

\* The outcome of attempt_run when nothing happens.
Stay(m, sel, pend) ==
  [mode |-> m, selected_index |-> sel, pending_sudo_command |-> pend,
   ret |-> FALSE, launch |-> <<>>, panic |-> FALSE]

\* attempt_run: the new mode, cursor and pending command, the returned bool,
\* the launch it dispatched (a sequence of zero or one task), and whether
\* indexing the candidate list panicked.
AttemptRun(m, search_query, filtered, sel, pend, password_query) ==
  IF m = "Search" THEN
    LET raw_cmd == RawCmd(search_query) IN
    IF IsSudoRequest(raw_cmd) THEN
      IF ActualCmd(raw_cmd) # <<>>
      THEN [Stay("SudoPassword", 0, ActualCmd(raw_cmd)) EXCEPT !.ret = FALSE]
      ELSE Stay(m, sel, pend)
    ELSE IF ~UsesRawInput(filtered, raw_cmd) /\ sel >= Len(filtered)
    THEN [Stay(m, sel, pend) EXCEPT !.panic = TRUE]
    ELSE
      LET cmd_to_run == IF UsesRawInput(filtered, raw_cmd) THEN raw_cmd
                        ELSE filtered[sel + 1]
      IN  IF cmd_to_run # <<>>
          THEN [Stay(m, sel, pend) EXCEPT !.ret = TRUE,
                                          !.launch = <<Task(cmd_to_run, FALSE, <<>>)>>]
          ELSE Stay(m, sel, pend)
  ELSE
    IF PasswordGiven(password_query)
    THEN [Stay(m, sel, pend) EXCEPT !.ret = TRUE,
                                    !.launch = <<Task(pend, TRUE, <<password_query>>)>>]
    ELSE Stay(m, sel, pend)

\* ------------------------------------------------------------------------
\* spawn_process: what the detached thread builds
\* ------------------------------------------------------------------------

\* The helper's command without the end-of-options marker.
SudoCommand_NoMarker(parts) ==
  [program |-> <<115, 117, 100, 111>>,
   args    |-> <<<<45, 83>>, <<45, 107>>>> \o parts,
   envs    |-> {},
   stdin   |-> "piped"]

\* Command::new("sudo").arg("-S").arg("-k").arg("--").args(parts)
\*   .stdin(Stdio::piped()); no env is set on the Command.
SudoCommand(parts) ==
  [program |-> <<115, 117, 100, 111>>,
   args    |-> <<<<45, 83>>, <<45, 107>>, <<45, 45>>>> \o parts,
   envs    |-> {},
   stdin   |-> "piped"]

\* Command::new(cmd).args(args)
PlainCommand(parts) ==
  [program |-> Head(parts), args |-> Tail(parts), envs |-> {}, stdin |-> "inherit"]

\* A spawned child: its command, the bytes its standard input has received
\* from the launcher, whether the launcher still holds that pipe open, and
\* the task that spawned it.
Child(cmd, t) == [cmd |-> cmd, stdin_data |-> <<>>, stdin_open |-> cmd.stdin = "piped", task |-> t]

\* ------------------------------------------------------------------------
\* The inputs of the model
\* ------------------------------------------------------------------------

\* What the search box can hold after an edit.
Queries ==
  { <<>>,
    <<108, 115>>,                                   \* ls
    <<32, 76, 83, 32>>,                             \*  LS (padded, upper case)
    <<108, 115, 32, 45, 108, 97>>,                  \* ls -la
    <<102, 105, 114, 101>>,                         \* fire
    <<97, 9, 98>>,                                  \* a<TAB>b
    <<32, 9, 32>>,                                  \* whitespace only
    <<122>>,                                        \* z
    <<115, 117, 100, 111>>,                         \* sudo
    <<115, 117, 100, 111, 32>>,                     \* sudo<SP>
    <<115, 117, 100, 111, 32, 118, 105, 109>>,      \* sudo vim
    <<115, 117, 100, 111, 32, 32, 108, 115, 32, 45, 108, 32>>,  \* sudo  ls -l<SP>
    <<115, 117, 100, 111, 9, 108, 115>>,            \* sudo<TAB>ls
    <<83, 85, 68, 79, 32, 108, 115>> }              \* SUDO ls

\* What the password box can hold after an edit.
Passwords == { <<>>, <<112, 119>>, <<113, 32, 49>> }   \* "", pw, q 1

NoKeys == [esc |-> FALSE, enter |-> FALSE, tab |-> FALSE, right |-> FALSE, left |-> FALSE]

KeySets == [esc : BOOLEAN, enter : BOOLEAN, tab : BOOLEAN, right : BOOLEAN, left : BOOLEAN]

\* ------------------------------------------------------------------------
\* State
\* ------------------------------------------------------------------------

VARIABLES
  all_executables,       \* DeeMenu fields (lines 34-46)
  filtered_executables,
  search_query,
  password_query,
  selected_index,
  mode,                  \* "Search" | "SudoPassword"
  pending_sudo_command,
  startup_counter,
  pc,                    \* where update() is: idle, esc, nav, text, click, enter
  keys,                  \* esc_pressed .. arrow_left, the locals of lines 257-261
  should_close,          \* the local of line 286
  close_sent,            \* ViewportCommand::Close has been sent
  tasks,                 \* the threads spawn_process started, in order
  procs,                 \* the child processes spawned, in order
  exited,                \* run_native returned and main with it: the process is gone
  panicked,              \* the interactive thread panicked
  cycle,                 \* history of the current update(): Escape was handled in
                         \* Search mode; how many launches it has dispatched
  scan                   \* scan_path while it runs: its position, the environment
                         \* it reads and its locals; ScanOver once the session runs

vars ==
  <<all_executables, filtered_executables, search_query, password_query,
    selected_index, mode, pending_sudo_command, startup_counter, pc, keys,
    should_close, close_sent, tasks, procs, exited, panicked, cycle, scan>>

app  == <<filtered_executables, search_query, password_query, selected_index,
          mode, pending_sudo_command>>
os   == <<tasks, procs, exited>>

Running == ~exited /\ ~panicked

\* scan_path has returned and its locals are gone.
ScanOver == [pc |-> "over"]

\* DeeMenu::new (lines 63-75): empty fields, then scan_path, which ends in
\* update_filter (line 133).
Init ==
  /\ \E fs \in Layouts, env \in PathValues : all_executables = ScanPath(env, fs)
  /\ search_query = <<>>
  /\ password_query = <<>>
  /\ filtered_executables = UpdateFilter(all_executables, <<>>, 0).filtered_executables
  /\ selected_index = UpdateFilter(all_executables, <<>>, 0).selected_index
  /\ mode = "Search"
  /\ pending_sudo_command = <<>>
  /\ startup_counter = 0
  /\ pc = "idle"
  /\ keys = NoKeys
  /\ should_close = FALSE
  /\ close_sent = FALSE
  /\ tasks = <<>>
  /\ procs = <<>>
  /\ exited = FALSE
  /\ panicked = FALSE
  /\ cycle = [esc_in_search |-> FALSE, launched |-> 0]
  /\ scan = ScanOver

\* ------------------------------------------------------------------------
\* update(), block by block
\* ------------------------------------------------------------------------

\* Lines 247-261: the host calls update(); the startup counter advances and
\* the key state of the frame is read.  No frame follows a Close.
Frame ==
  /\ Running /\ pc = "idle" /\ ~close_sent
  /\ startup_counter' = IF startup_counter < 3 THEN startup_counter + 1 ELSE startup_counter
  /\ \E k \in KeySets : keys' = k
  /\ pc' = "esc"
  /\ cycle' = [esc_in_search |-> FALSE, launched |-> 0]
  /\ UNCHANGED <<all_executables, scan, app, should_close, close_sent, os, panicked>>

\* Escape that also empties pending_sudo_command on the way back to Search.
OnEscape_ClearsPending(m, password_query_, pend) ==
  IF m = "SudoPassword"
  THEN [mode |-> "Search", password_query |-> <<>>,
        pending_sudo_command |-> <<>>, close |-> FALSE]
  ELSE [mode |-> m, password_query |-> password_query_,
        pending_sudo_command |-> pend, close |-> TRUE]

\* Escape that returns to Search without clearing password_query.
OnEscape_KeepsPassword(m, password_query_, pend) ==
  [mode |-> "Search", password_query |-> password_query_,
   pending_sudo_command |-> pend, close |-> m # "SudoPassword"]

\* Lines 263-270: what Escape does to mode, password_query and
\* pending_sudo_command (which it does not touch), and whether it sends Close.
OnEscape(m, password_query_, pend) ==
  IF m = "SudoPassword"
  THEN [mode |-> "Search", password_query |-> <<>>,
        pending_sudo_command |-> pend, close |-> FALSE]
  ELSE [mode |-> m, password_query |-> password_query_,
        pending_sudo_command |-> pend, close |-> TRUE]

HandleEscape ==
  /\ Running /\ pc = "esc"
  /\ IF keys.esc
     THEN LET r == OnEscape(mode, password_query, pending_sudo_command)
          IN  /\ mode' = r.mode
              /\ password_query' = r.password_query
              /\ pending_sudo_command' = r.pending_sudo_command
              /\ close_sent' = (close_sent \/ r.close)
              /\ cycle' = [cycle EXCEPT !.esc_in_search = (mode = "Search")]
     ELSE UNCHANGED <<mode, password_query, pending_sudo_command, close_sent, cycle>>
  /\ pc' = "nav"
  /\ UNCHANGED <<all_executables, scan, filtered_executables, search_query, selected_index,
                 startup_counter, keys, should_close, os, panicked>>

\* The advance without the wrap to 0.
Advance_NoWrap(sel, len) == sel + 1

\* Lines 274-276: Tab or ArrowRight.
Advance(sel, len) == (sel + 1) % len

\* The retreat that stops at 0 instead of wrapping to the last candidate.
Retreat_NoWrap(sel, len) == IF sel = 0 THEN 0 ELSE sel - 1

\* Lines 277-283: ArrowLeft.
Retreat(sel, len) == IF sel = 0 THEN len - 1 ELSE sel - 1

\* Lines 272-284.
Navigate ==
  /\ Running /\ pc = "nav"
  /\ IF mode = "Search" /\ filtered_executables # <<>>
     THEN LET len == Len(filtered_executables)
              s1  == IF keys.right \/ keys.tab THEN Advance(selected_index, len)
                     ELSE selected_index
          IN  selected_index' = IF keys.left THEN Retreat(s1, len) ELSE s1
     ELSE UNCHANGED selected_index
  /\ pc' = "text"
  /\ should_close' = FALSE                       \* line 286
  /\ UNCHANGED <<all_executables, scan, filtered_executables, search_query, password_query,
                 mode, pending_sudo_command, startup_counter, keys, close_sent, os,
                 panicked, cycle>>

\* Lines 309-323 (Search) and 387-392 (SudoPassword): the text box of the
\* mode takes the frame's edit, if any; a changed search box resets the
\* cursor and refilters.
TextEdit ==
  /\ Running /\ pc = "text"
  /\ \/ UNCHANGED <<search_query, password_query, selected_index, filtered_executables>>
     \/ /\ mode = "Search"
        /\ \E q \in Queries \ {search_query} :
             /\ search_query' = q
             /\ filtered_executables' =
                  UpdateFilter(all_executables, q, 0).filtered_executables
             /\ selected_index' = UpdateFilter(all_executables, q, 0).selected_index
        /\ UNCHANGED password_query
     \/ /\ mode = "SudoPassword"
        /\ \E p \in Passwords \ {password_query} : password_query' = p
        /\ UNCHANGED <<search_query, selected_index, filtered_executables>>
  /\ pc' = "click"
  /\ UNCHANGED <<all_executables, scan, mode, pending_sudo_command, startup_counter, keys,
                 should_close, close_sent, os, panicked, cycle>>

\* Lines 328-376: a click on candidate i selects it, copies its name into the
\* search box and commits.  The candidates are drawn in Search mode only.
Click ==
  /\ Running /\ pc = "click"
  /\ \/ UNCHANGED <<app, should_close, tasks, panicked, cycle>>
     \/ /\ mode = "Search"
        /\ \E i \in 0..(Len(filtered_executables) - 1) :
             LET name == filtered_executables[i + 1]
                 r    == AttemptRun(mode, name, filtered_executables, i,
                                    pending_sudo_command, password_query)
             IN  /\ search_query' = name
                 /\ selected_index' = r.selected_index
                 /\ mode' = r.mode
                 /\ pending_sudo_command' = r.pending_sudo_command
                 /\ should_close' = r.ret
                 /\ tasks' = tasks \o r.launch
                 /\ panicked' = r.panic
                 /\ cycle' = [cycle EXCEPT !.launched = @ + Len(r.launch)]
        /\ UNCHANGED <<filtered_executables, password_query>>
  /\ pc' = "enter"
  /\ UNCHANGED <<all_executables, scan, startup_counter, keys, close_sent, procs, exited>>

\* Lines 402-409: Enter commits; then Close is sent if should_close.  The
\* locals end with the call.
HandleEnter ==
  /\ Running /\ pc = "enter"
  /\ IF keys.enter
     THEN LET r == AttemptRun(mode, search_query, filtered_executables, selected_index,
                              pending_sudo_command, password_query)
          IN  /\ selected_index' = r.selected_index
              /\ mode' = r.mode
              /\ pending_sudo_command' = r.pending_sudo_command
              /\ tasks' = tasks \o r.launch
              /\ panicked' = r.panic
              /\ close_sent' = (close_sent \/ r.ret)
              /\ cycle' = [cycle EXCEPT !.launched = @ + Len(r.launch)]
     ELSE /\ close_sent' = (close_sent \/ should_close)
          /\ UNCHANGED <<selected_index, mode, pending_sudo_command, tasks, panicked, cycle>>
  /\ pc' = "idle"
  /\ keys' = NoKeys
  /\ should_close' = FALSE
  /\ UNCHANGED <<all_executables, scan, filtered_executables, search_query, password_query,
                 startup_counter, procs, exited>>

\* ------------------------------------------------------------------------
\* The host and the launch threads
\* ------------------------------------------------------------------------

\* Lines 21-26: after a Close the host ends the event loop, run_native
\* returns and main returns; the process exits and takes its threads with it.
HostExit ==
  /\ Running /\ pc = "idle" /\ close_sent
  /\ exited' = TRUE
  /\ UNCHANGED <<all_executables, scan, app, startup_counter, pc, keys, should_close,
                 close_sent, tasks, procs, panicked, cycle>>

SetTask(i, st) == [tasks EXCEPT ![i].st = st]

\* Lines 214-226 and 234-240: thread i splits its command and spawns; the
\* spawn succeeds or fails.  A failed plain spawn is dropped (let _ =), a
\* failed sudo spawn panics the thread (expect).
ThreadSpawn(i) ==
  /\ ~exited /\ tasks[i].st = "start"
  /\ LET t     == tasks[i]
         parts == SplitWhitespace(t.cmd_str)
     IN  IF parts = <<>>
         THEN tasks' = SetTask(i, "done") /\ UNCHANGED procs
         ELSE IF t.is_sudo
         THEN \/ /\ procs' = Append(procs, Child(SudoCommand(parts), i))
                 /\ tasks' = SetTask(i, "spawned")
              \/ /\ tasks' = SetTask(i, "panicked")
                 /\ UNCHANGED procs
         ELSE \/ /\ procs' = Append(procs, Child(PlainCommand(parts), i))
                 /\ tasks' = SetTask(i, "done")
              \/ /\ tasks' = SetTask(i, "done")
                 /\ UNCHANGED procs
  /\ UNCHANGED <<all_executables, scan, app, startup_counter, pc, keys, should_close,
                 close_sent, exited, panicked, cycle>>

\* Lines 228-232: the thread writes the password to the child's stdin (an
\* error is dropped: nothing reaches the child) and drops the pipe, closing it.
ThreadWrite(i) ==
  /\ ~exited /\ tasks[i].st = "spawned"
  /\ \E c \in 1..Len(procs) :
       /\ procs[c].task = i
       /\ \E ok \in BOOLEAN :
            procs' = [procs EXCEPT ![c].stdin_data =
                                      IF ok THEN tasks[i].password[1] ELSE <<>>,
                                   ![c].stdin_open = FALSE]
  /\ tasks' = SetTask(i, "done")
  /\ UNCHANGED <<all_executables, scan, app, startup_counter, pc, keys, should_close,
                 close_sent, exited, panicked, cycle>>

Next ==
  \/ Frame
  \/ HandleEscape
  \/ Navigate
  \/ TextEdit
  \/ Click
  \/ HandleEnter
  \/ HostExit
  \/ \E i \in 1..Len(tasks) : ThreadSpawn(i)
  \/ \E i \in 1..Len(tasks) : ThreadWrite(i)

Spec == Init /\ [][Next]_vars

\* ------------------------------------------------------------------------
\* scan_path, step by step
\* ------------------------------------------------------------------------

\* How often scan_path is run on one filesystem.
MaxScans == 2

\* The directories of the scanned layouts: two fallbacks and one that only
\* PATH can name.
ScanDirs == {"/usr/bin", "/home/u/bin", "/sbin"}

\* What a directory of a scanned layout can be: unreadable, or one of two
\* listings that share the name ls.
DirChoices ==
  { [readable |-> FALSE, entries |-> { File(<<102, 115, 99, 107>>) }],      \* fsck
    [readable |-> TRUE,
     entries  |-> { File(<<108, 115>>),                                     \* ls
                    File(<<46, 108, 115>>),                                 \* .ls
                    [File(<<108, 115, 100>>) EXCEPT !.kind = "dir"],        \* lsd/
                    [File(<<118, 105, 109>>) EXCEPT !.exec = FALSE] }],     \* vim, mode 0644
    [readable |-> TRUE,
     entries  |-> { File(<<108, 115>>),                                     \* ls
                    [File(<<115, 104>>) EXCEPT !.kind = "symlink"],         \* sh -> ...
                    [File(<<108, 115, 116>>) EXCEPT !.type_ok = FALSE],     \* lst
                    [File(<<108, 115, 101>>) EXCEPT !.entry_ok = FALSE] }] }  \* lse

\* Every layout over those directories, each present or not.
ScanLayouts == UNION { [D -> DirChoices] : D \in SUBSET ScanDirs }

\* The orders in which a HashSet can yield its elements (into_iter).
RECURSIVE Orders(_)
Orders(S) ==
  IF S = {} THEN {<<>>}
  ELSE UNION { { <<x>> \o o : o \in Orders(S \ {x}) } : x \in S }

\* DeeMenu's fields as Self { .. } builds them (lines 63-72), scan_path not
\* yet run, over an environment and a layout.
ScanInit ==
  /\ all_executables = <<>>
  /\ filtered_executables = <<>>
  /\ search_query = <<>>
  /\ password_query = <<>>
  /\ selected_index = 0
  /\ mode = "Search"
  /\ pending_sudo_command = <<>>
  /\ startup_counter = 0
  /\ pc = "new"
  /\ keys = NoKeys
  /\ should_close = FALSE
  /\ close_sent = FALSE
  /\ tasks = <<>>
  /\ procs = <<>>
  /\ exited = FALSE
  /\ panicked = FALSE
  /\ cycle = [esc_in_search |-> FALSE, launched |-> 0]
  /\ \E env \in PathValues, fs \in ScanLayouts :
       scan = [pc |-> "start", env |-> env, fs |-> fs, paths |-> <<>>, i |-> 0,
               binaries |-> {}, runs |-> 0, prev |-> <<>>]

ScanFrame ==
  <<search_query, password_query, mode, pending_sudo_command, startup_counter, pc,
    keys, should_close, close_sent, tasks, procs, exited, panicked, cycle>>

\* Lines 80-104: the empty HashSet and the list of directories to scan.
ScanBegin ==
  /\ scan.pc = "start"
  /\ scan' = [scan EXCEPT !.pc = "dirs", !.paths = paths_to_scan(scan.env),
                          !.i = 1, !.binaries = {}]
  /\ UNCHANGED <<all_executables, filtered_executables, selected_index, ScanFrame>>

\* Lines 106-129: one directory of the list.
ScanDir ==
  /\ scan.pc = "dirs" /\ scan.i <= Len(scan.paths)
  /\ scan' = [scan EXCEPT !.i = @ + 1,
                          !.binaries = @ \cup DirBinaries(scan.fs, scan.paths[scan.i])]
  /\ UNCHANGED <<all_executables, filtered_executables, selected_index, ScanFrame>>

\* Line 131: the HashSet is collected into all_executables, in its own order.
ScanCollect ==
  /\ scan.pc = "dirs" /\ scan.i > Len(scan.paths)
  /\ \E order \in Orders(scan.binaries) : all_executables' = order
  /\ scan' = [scan EXCEPT !.pc = "sort"]
  /\ UNCHANGED <<filtered_executables, selected_index, ScanFrame>>

\* Lines 132-133: the sort, then update_filter.
ScanSort ==
  /\ scan.pc = "sort"
  /\ all_executables' = SortedVec(Range(all_executables))
  /\ filtered_executables' =
       UpdateFilter(all_executables', search_query, selected_index).filtered_executables
  /\ selected_index' =
       UpdateFilter(all_executables', search_query, selected_index).selected_index
  /\ scan' = [scan EXCEPT !.pc = "done", !.runs = @ + 1]
  /\ UNCHANGED ScanFrame

\* scan_path is called again, the filesystem and PATH being what they were.
Rescan ==
  /\ scan.pc = "done" /\ scan.runs < MaxScans
  /\ scan' = [scan EXCEPT !.pc = "start", !.prev = all_executables]
  /\ UNCHANGED <<all_executables, filtered_executables, selected_index, ScanFrame>>

ScanNext ==
  \/ ScanBegin
  \/ ScanDir
  \/ ScanCollect
  \/ ScanSort
  \/ Rescan

ScanSpec == ScanInit /\ [][ScanNext]_vars

\* scan_path is straight-line code on the interactive thread: a step that can
\* be taken is taken.
ScanFairSpec == ScanSpec /\ WF_vars(ScanNext)

\* ------------------------------------------------------------------------
\* Properties
\* ------------------------------------------------------------------------

\* The step in which the Enter key's commit runs attempt_run.
EnterCommit == pc = "enter" /\ keys.enter /\ pc' = "idle"

\* The same, in Search mode.
EnterCommitInSearch == EnterCommit /\ mode = "Search"

\* q is "sudo", one space, and nothing but whitespace after it.
EmptyElevation(q) ==
  /\ Len(q) >= 5
  /\ SubSeq(q, 1, 5) = <<115, 117, 100, 111, 32>>
  /\ \A i \in 6..Len(q) : IsWhitespace(q[i])

\* C1: a commit in Search state whose query is the elevation prefix with an
\* empty remainder dispatches no launch, does not ask the session to
\* terminate and leaves the launch state Search.
C1_EmptyElevationIgnored ==
  [][ (EnterCommitInSearch /\ EmptyElevation(search_query))
        => (tasks' = tasks /\ close_sent' = close_sent /\ mode' = "Search") ]_vars

\* The trimmed q is "sudo", a space, and something after it.
IsElevation(q) ==
  LET t == Trim(q)
  IN  Len(t) >= 6 /\ SubSeq(t, 1, 5) = <<115, 117, 100, 111, 32>>

\* The remainder of an elevation query: what follows "sudo" and the
\* whitespace after it.
ElevationTarget(q) ==
  LET t == Trim(q)
      k == CHOOSE i \in 6..Len(t) :
             ~IsWhitespace(t[i]) /\ \A j \in 6..(i - 1) : IsWhitespace(t[j])
  IN  SubSeq(t, k, Len(t))

\* C2: a commit in Search state of "sudo", at least one space and a non-empty
\* remainder enters AwaitingCredential with target_command the trimmed
\* remainder, sets the cursor to 0, dispatches nothing and does not ask the
\* session to terminate.
C2_ElevationAwaitsCredential ==
  [][ (EnterCommitInSearch /\ IsElevation(search_query))
        => /\ mode' = "SudoPassword"
           /\ pending_sudo_command' = ElevationTarget(search_query)
           /\ selected_index' = 0
           /\ tasks' = tasks
           /\ close_sent' = close_sent ]_vars

\* C2's case: "sudo  ls -l " was committed and the machine now awaits the
\* credential for "ls -l".
C2_Witness ==
  /\ pc = "idle" /\ mode = "SudoPassword" /\ ~close_sent
  /\ search_query = <<115, 117, 100, 111, 32, 32, 108, 115, 32, 45, 108, 32>>
  /\ pending_sudo_command = <<108, 115, 32, 45, 108>>
  /\ selected_index = 0

\* The trimmed q neither is "sudo" nor starts with "sudo" and a space: a
\* query that asks for no elevation, well-formed or not.
IsPlainQuery(q) ==
  LET t == Trim(q)
  IN  ~(/\ Len(t) >= 4
        /\ SubSeq(t, 1, 4) = <<115, 117, 100, 111>>
        /\ (Len(t) = 4 \/ t[5] = 32))

\* What a plain commit of command `resolved` does: a non-empty one is
\* dispatched as a Plain launch and the session is asked to terminate, an
\* empty one dispatches nothing and the session stays interactive.
PlainCommitOf(resolved) ==
  IF resolved # <<>>
  THEN /\ tasks' = Append(tasks, [cmd_str |-> resolved, is_sudo |-> FALSE,
                                  password |-> <<>>, st |-> "start"])
       /\ close_sent'
  ELSE /\ tasks' = tasks
       /\ close_sent' = close_sent

\* C3 as claimed: for a commit in Search state with a non-elevation query, the
\* resolved command is the candidate under the cursor exactly when the
\* candidate list is non-empty and the trimmed query contains no whitespace
\* character of any kind, and the trimmed query otherwise; it is launched as
\* Plain when non-empty.
C3_AnyWhitespaceMeansRaw ==
  [][ (EnterCommitInSearch /\ IsPlainQuery(search_query))
        => LET t == Trim(search_query)
           IN  PlainCommitOf(
                 IF /\ filtered_executables # <<>>
                    /\ \A i \in 1..Len(t) : ~IsWhitespace(t[i])
                 THEN filtered_executables[selected_index + 1]
                 ELSE t) ]_vars

\* C3 as amended: the same, with "contains no space character (U+0020)" in
\* place of "contains no whitespace character of any kind".
C3_SpaceMeansRaw ==
  [][ (EnterCommitInSearch /\ IsPlainQuery(search_query))
        => LET t == Trim(search_query)
           IN  PlainCommitOf(
                 IF /\ filtered_executables # <<>>
                    /\ \A i \in 1..Len(t) : t[i] # 32
                 THEN filtered_executables[selected_index + 1]
                 ELSE t) ]_vars

\* C3's case: the query a<TAB>b was committed and the candidate A<TAB>b, not
\* the query, was launched.
C3_Witness ==
  /\ search_query = <<97, 9, 98>>
  /\ tasks # <<>>
  /\ tasks[Len(tasks)] = [cmd_str |-> <<65, 9, 98>>, is_sudo |-> FALSE,
                          password |-> <<>>, st |-> "start"]
  /\ close_sent

\* C4: a commit in AwaitingCredential state with a non-empty credential
\* dispatches exactly Privileged(target_command, credential) and asks the
\* session to terminate; with an empty credential it dispatches nothing, does
\* not terminate, and leaves launch state, target_command, search query,
\* candidate list and cursor unchanged.
C4_CredentialCommit ==
  [][ (EnterCommit /\ mode = "SudoPassword")
        => IF password_query # <<>>
           THEN /\ tasks' = Append(tasks, [cmd_str  |-> pending_sudo_command,
                                           is_sudo  |-> TRUE,
                                           password |-> <<password_query>>,
                                           st       |-> "start"])
                /\ close_sent'
           ELSE /\ tasks' = tasks
                /\ close_sent' = close_sent
                /\ UNCHANGED <<mode, pending_sudo_command, search_query,
                               filtered_executables, selected_index>> ]_vars

\* C4's case: a credential commit has dispatched Privileged("vim", "pw") and
\* the session was asked to terminate.
C4_Witness ==
  /\ close_sent /\ pc = "idle" /\ mode = "SudoPassword"
  /\ tasks = <<[cmd_str |-> <<118, 105, 109>>, is_sudo |-> TRUE,
                password |-> <<<<112, 119>>>>, st |-> "start"]>>

\* C5: session shutdown never cuts short an in-flight launch: when the
\* process has exited, every dispatched launch has run to completion or
\* OS-level failure.
C5_LaunchOutlivesSession ==
  exited => \A i \in 1..Len(tasks) : tasks[i].st \in {"done", "panicked"}

\* C6 as claimed: target_command is non-empty only while the launch state is
\* AwaitingCredential.
C6_TargetOnlyWhileAwaiting ==
  pending_sudo_command # <<>> => mode = "SudoPassword"

\* C6 as amended: target_command is non-empty whenever the launch state is
\* AwaitingCredential, and it is written only by the commit that enters
\* AwaitingCredential; a cancel leaves it as it is.
C6_TargetSetOnEntryOnly ==
  /\ [](mode = "SudoPassword" => pending_sudo_command # <<>>)
  /\ [][ pending_sudo_command' # pending_sudo_command
           => (mode = "Search" /\ mode' = "SudoPassword") ]_vars

\* C6's case: a cancel has returned the machine to Search and the session
\* goes on with the target_command of the cancelled request still in place.
C6_Witness ==
  /\ pc = "idle" /\ mode = "Search" /\ ~close_sent
  /\ pending_sudo_command = <<118, 105, 109>>

\* C7: an Escape handled while the launch state is Search asks the session to
\* terminate, and no launch request is dispatched in the handling of that
\* update cycle, whatever else arrives in it.
C7_EscapeInSearchLaunchesNothing ==
  cycle.esc_in_search => (close_sent /\ cycle.launched = 0)

\* C8: an Escape handled while the launch state is AwaitingCredential empties
\* the credential query and sets the launch state to Search, does not ask the
\* session to terminate, and leaves the search query unchanged.
C8_CancelFromCredential ==
  [][ (pc = "esc" /\ pc' = "nav" /\ keys.esc /\ mode = "SudoPassword")
        => /\ password_query' = <<>>
           /\ mode' = "Search"
           /\ close_sent' = close_sent
           /\ search_query' = search_query ]_vars

\* C8's case: Escape has just been handled in AwaitingCredential (the session
\* was not asked to terminate) and the machine is in Search with the query
\* that asked for the elevation.
C8_Witness ==
  /\ pc = "nav" /\ keys.esc /\ ~close_sent /\ mode = "Search"
  /\ password_query = <<>>
  /\ search_query = <<115, 117, 100, 111, 32, 118, 105, 109>>

\* C9: the elevation helper's argument vector is the fixed flags -S, -k, --
\* followed by the whitespace-split tokens of target_command; the secret
\* reaches the child only as the bytes written to its standard input, which
\* is then closed; it is in no spawned process's arguments or environment;
\* an empty token list spawns nothing.
C9_SecretOnlyOnStdin ==
  /\ \A c \in 1..Len(procs) :
       LET ch == procs[c]
           t  == tasks[ch.task]
       IN  /\ ch.cmd.envs = {}
           /\ t.is_sudo =>
                /\ ch.cmd.program = <<115, 117, 100, 111>>
                /\ Len(ch.cmd.args) > 3
                /\ SubSeq(ch.cmd.args, 1, 3) = <<<<45, 83>>, <<45, 107>>, <<45, 45>>>>
                /\ SubSeq(ch.cmd.args, 4, Len(ch.cmd.args)) = SplitWhitespace(t.cmd_str)
                /\ ch.cmd.stdin = "piped"
                /\ ch.stdin_data \in {<<>>, t.password[1]}
                /\ (t.st = "spawned" => ch.stdin_data = <<>> /\ ch.stdin_open)
                /\ (t.st = "done" => ~ch.stdin_open)
           /\ ~t.is_sudo => ch.stdin_data = <<>> /\ ch.cmd.stdin = "inherit"
           /\ \A i \in 1..Len(tasks) :
                tasks[i].is_sudo =>
                  /\ ~Contains(ch.cmd.program, tasks[i].password[1])
                  /\ \A a \in Range(ch.cmd.args) : ~Contains(a, tasks[i].password[1])
  /\ \A i \in 1..Len(tasks) :
       SplitWhitespace(tasks[i].cmd_str) = <<>> =>
         \A c \in 1..Len(procs) : procs[c].task # i

\* C9's case: sudo -S -k -- ls -l was spawned, the password "q 1" was written
\* to its standard input and the pipe is closed.
C9_Witness ==
  \E c \in 1..Len(procs) :
    /\ procs[c].cmd.args = <<<<45, 83>>, <<45, 107>>, <<45, 45>>, <<108, 115>>, <<45, 108>>>>
    /\ procs[c].stdin_data = <<113, 32, 49>>
    /\ ~procs[c].stdin_open
    /\ tasks[procs[c].task].st = "done"

\* The query the filter matches with: trimmed, lowercased, one leading
\* "sudo " stripped.
NormalizedQuery(q) ==
  LET t == ToLowercase(Trim(q))
  IN  IF Len(t) >= 5 /\ SubSeq(t, 1, 5) = <<115, 117, 100, 111, 32>>
      THEN SubSeq(t, 6, Len(t)) ELSE t

\* f is the candidate list of query q over index all: at most 50 entries, a
\* subsequence of the index in index order, made of the first 50 entries (q
\* normalizing to empty) or the first 50 entries whose lowercased name
\* contains the normalized query.
IsCandidateListOf(f, q, all) ==
  LET nq       == NormalizedQuery(q)
      matching == {i \in 1..Len(all) :
                     nq = <<>> \/
                     \E k \in 1..Len(all[i]) :
                        /\ k + Len(nq) - 1 <= Len(all[i])
                        /\ \A j \in 1..Len(nq) : LowerChar(all[i][k + j - 1]) = nq[j]}
      pos(j)   == CHOOSE i \in 1..Len(all) : all[i] = f[j]
      taken    == {pos(j) : j \in 1..Len(f)}
  IN  /\ Len(f) <= 50
      /\ \A j \in 1..Len(f) : \E i \in 1..Len(all) : all[i] = f[j]
      /\ \A j \in 1..(Len(f) - 1) : pos(j) < pos(j + 1)
      /\ taken \subseteq matching
      /\ \A i \in matching \ taken : Len(f) = 50 /\ \A p \in taken : p < i

\* C10: for every search query and every index the filter produces the
\* candidate list described above, at construction and at every edit of the
\* search box.
C10_FilterResult ==
  /\ IsCandidateListOf(filtered_executables, search_query, all_executables)
  /\ [][ (pc = "text" /\ pc' = "click" /\ search_query' # search_query)
           => IsCandidateListOf(filtered_executables', search_query', all_executables) ]_vars

\* C10's case: the query "z" matches more than 50 entries of the index and
\* the candidate list holds the first 50.
C10_Witness ==
  /\ pc = "click" /\ search_query = <<122>>
  /\ Len(filtered_executables) = 50
  /\ Cardinality({i \in 1..Len(all_executables) : Contains(all_executables[i], <<122>>)}) > 50

\* C11: in every reachable state the selection cursor is 0 <= cursor <
\* len(candidate list) when the list is non-empty and 0 when it is empty, so
\* indexing the candidate list at the cursor on commit never goes out of
\* bounds.
C11_CursorInBounds ==
  /\ selected_index >= 0
  /\ filtered_executables = <<>> => selected_index = 0
  /\ filtered_executables # <<>> => selected_index < Len(filtered_executables)
  /\ ~panicked

\* C11's case: an advance from the last candidate has wrapped the cursor to 0.
C11_Witness ==
  /\ pc = "text" /\ mode = "Search" /\ keys.right /\ ~keys.left
  /\ Len(filtered_executables) > 2 /\ selected_index = 0

\* C12: in Search state with a non-empty candidate list of length len, advance
\* (Tab or ArrowRight) sets the cursor to (cursor+1) mod len and retreat
\* (ArrowLeft) to len-1 from 0 and to cursor-1 otherwise; each undoes the
\* other; on an empty list both leave the cursor unchanged.
C12_CyclicNavigation ==
  /\ [][ (pc = "nav" /\ pc' = "text" /\ mode = "Search")
           => LET len == Len(filtered_executables)
                  adv == keys.right \/ keys.tab
                  c   == selected_index
              IN  IF len = 0 THEN selected_index' = c
                  ELSE /\ (adv /\ ~keys.left) => selected_index' = (c + 1) % len
                       /\ (keys.left /\ ~adv) =>
                            selected_index' = IF c = 0 THEN len - 1 ELSE c - 1
                       /\ (adv /\ keys.left) => selected_index' = c
                       /\ (~adv /\ ~keys.left) => selected_index' = c ]_vars
  /\ [](filtered_executables # <<>> =>
          LET len == Len(filtered_executables)
          IN  /\ Retreat(Advance(selected_index, len), len) = selected_index
              /\ Advance(Retreat(selected_index, len), len) = selected_index)

\* C12's case: Tab and ArrowLeft arrived in one frame with the cursor on the
\* last of several candidates: the advance wrapped to 0 and the retreat
\* brought the cursor back.
C12_Witness ==
  /\ pc = "text" /\ mode = "Search" /\ keys.tab /\ keys.left /\ ~keys.right
  /\ Len(filtered_executables) > 2
  /\ selected_index = Len(filtered_executables) - 1

\* Name a sorts before name b: at the first position where they differ a has
\* the smaller code point, or a is a proper prefix of b.
NameBefore(a, b) ==
  LET n    == IF Len(a) < Len(b) THEN Len(a) ELSE Len(b)
      diff == {k \in 1..n : a[k] # b[k]}
  IN  IF diff = {} THEN Len(a) < Len(b)
      ELSE LET d == CHOOSE k \in diff : \A j \in diff : k <= j
           IN  a[d] < b[d]

\* C13: for any value of the search-path variable and any filesystem layout
\* the indexer completes without aborting and yields a sequence of names that
\* is sorted ascending, has no duplicates, and is the same when the refresh
\* is rerun on the unchanged filesystem.
C13_IndexSortedDeterministic ==
  /\ [](scan.pc = "done" =>
          /\ \A i \in 1..(Len(all_executables) - 1) :
               NameBefore(all_executables[i], all_executables[i + 1])
          /\ \A i, j \in 1..Len(all_executables) :
               i # j => all_executables[i] # all_executables[j]
          /\ scan.runs > 1 => all_executables = scan.prev)
  /\ (scan.pc = "start") ~> (scan.pc = "done")

\* C13's case: the index of three names has been built a second time.
C13_Witness ==
  /\ scan.pc = "done" /\ scan.runs = 2 /\ Len(all_executables) = 3
  /\ ~scan.env.set

\* The directories of the search-path list and the fixed fallbacks.
ListedDirs(env) ==
  (IF env.set THEN {env.val[i] : i \in 1..Len(env.val)} \ {":"} ELSE {})
    \cup {"/usr/bin", "/usr/local/bin", "/bin", "/snap/bin",
          "/var/lib/flatpak/exports/bin", "/sbin", "/usr/sbin"}

\* The direct children of the listed directories that exist and can be read.
ListedEntries(env, fs) ==
  UNION { fs[d].entries : d \in {x \in ListedDirs(env) \cap DOMAIN fs : fs[x].readable} }

\* C18 as claimed: the names in the index are exactly the names of the direct
\* children, over every existing readable listed or fallback directory, that
\* do not start with '.' and are not directories, whatever their permission
\* bits; fallbacks are scanned even when the search path omits them.
C18_IndexIsAllNonDirectories ==
  scan.pc = "done" =>
    Range(all_executables) =
      { e.name : e \in { x \in ListedEntries(scan.env, scan.fs) :
                           x.name[1] # 46 /\ x.kind # "dir" } }

\* C18 as amended: the same, over the children whose directory entry and file
\* type can be read.
C18_IndexIsReadableNonDirectories ==
  scan.pc = "done" =>
    Range(all_executables) =
      { e.name : e \in { x \in ListedEntries(scan.env, scan.fs) :
                           /\ x.entry_ok /\ x.type_ok
                           /\ x.name[1] # 46 /\ x.kind # "dir" } }

\* C18's case: PATH is unset, /usr/bin holds vim without the executable bit
\* and /home/u/bin, which only PATH could name, holds sh: the index has vim
\* and not sh.
C18_Witness ==
  /\ scan.pc = "done" /\ ~scan.env.set
  /\ "/home/u/bin" \in DOMAIN scan.fs /\ "/usr/bin" \in DOMAIN scan.fs
  /\ <<118, 105, 109>> \in Range(all_executables)
  /\ <<115, 104>> \notin Range(all_executables)
  /\ \E e \in scan.fs["/home/u/bin"].entries : e.name = <<115, 104>>

\* A step of launch task i in which its spawn fails: the task leaves its
\* start with a command to run and no child process comes to exist.
SpawnFails(i) ==
  /\ tasks[i].st = "start" /\ tasks'[i].st # "start"
  /\ SplitWhitespace(tasks[i].cmd_str) # <<>>
  /\ procs' = procs

\* C14: a spawn failure of the plain target or of the elevation helper ends
\* the launch task without a panic and changes nothing in the interactive
\* state.
C14_SpawnFailureHarmless ==
  [][\A i \in 1..Len(tasks) :
       SpawnFails(i) => /\ tasks'[i].st = "done"
                        /\ UNCHANGED <<app, pc, keys, should_close, close_sent>>]_vars

\* C15: the launch state starts in Search; it goes from Search to
\* AwaitingCredential only by a commit of a well-formed elevation request and
\* from AwaitingCredential to Search only by an explicit cancel; no text
\* change, navigation key, click or rejected commit changes it.
C15_ModeTransitions ==
  /\ mode = "Search"
  /\ [][mode' # mode =>
          \/ /\ mode = "Search" /\ mode' = "SudoPassword"
             /\ EnterCommit /\ IsElevation(search_query)
          \/ /\ mode = "SudoPassword" /\ mode' = "Search"
             /\ pc = "esc" /\ keys.esc /\ pc' = "nav"]_vars

\* The filter strips the elevation prefix from q before matching and what
\* remains is non-empty (lines 137-144).
FilterStripsPrefix(q) ==
  LET query == ToLowercase(Trim(q))
  IN  StartsWith(query, SudoPrefix) /\ CleanQuery(q) # <<>>

\* C16: every query from which the filter strips the elevation prefix, with a
\* non-empty remainder, is treated by a commit in Search state as an
\* elevation request: the commit enters AwaitingCredential and dispatches no
\* launch.
C16_FilterAndCommitAgree ==
  [][EnterCommitInSearch /\ FilterStripsPrefix(search_query) =>
       mode' = "SudoPassword" /\ tasks' = tasks]_vars

\* C17: whenever the state is next read, at the start of a frame of a session
\* that goes on, the candidate list is the filter applied to the current
\* search query and the index: a text change and a click both recompute it.
C17_CandidatesFollowQuery ==
  pc = "idle" /\ ~close_sent =>
    filtered_executables =
      UpdateFilter(all_executables, search_query, selected_index).filtered_executables

\* The end of an update cycle in which Escape has not already asked the
\* session to terminate: Close is sent then (line 408) or not at all.
CycleEnd == pc = "enter" /\ pc' = "idle" /\ ~close_sent

\* C19: at most one launch request is dispatched per session, and a cycle's
\* commit asks the session to terminate if and only if a launch request was
\* dispatched in that cycle.
C19_OneLaunchPerSession ==
  /\ [](Len(tasks) <= 1)
  /\ [][CycleEnd => (close_sent' <=> cycle'.launched > 0)]_vars

\* C20: the credential query is empty whenever the launch state is Search,
\* and no step taken while the launch state is AwaitingCredential changes the
\* search query, the candidate list or the selection cursor.
C20_QueriesDisjoint ==
  /\ [](mode = "Search" => password_query = <<>>)
  /\ [][mode = "SudoPassword" =>
          UNCHANGED <<search_query, filtered_executables, selected_index>>]_vars

\* C20's case: in AwaitingCredential, with a credential typed and several
\* candidates behind the prompt, a navigation key has just been handled.
C20_Witness ==
  /\ pc = "text" /\ mode = "SudoPassword" /\ keys.right
  /\ password_query # <<>> /\ Len(filtered_executables) > 1

====
